---- MODULE Spec2Model ----
(***************************************************************************)
(* A model of nba_mvp.py: get_player_stats (the loop that turns table rows *)
(* into player dictionaries), filter_players, calculate_mvp and the main   *)
(* block that chains them and prints the report.                           *)
(*                                                                         *)
(* Text (cell text, names, patterns) is a sequence of one-character        *)
(* strings, so that strip(), float() and re.search() are computed on the   *)
(* characters.  A float is the exact decimal value num/den of its text;    *)
(* the cell texts of RowCatalogue have fractions .0 and .5 only, which     *)
(* binary floating point represents and adds exactly.                      *)
(***************************************************************************)
EXTENDS Integers, Sequences, FiniteSets, TLC

VARIABLES
    rows,          \* zip(name_rows, stat_rows[1:]): the rows the loop walks,
                   \* each given by its number in RowCatalogue
    args_top,      \* args.top
    args_pattern,  \* args.pattern
    pc,            \* position of the main block
    i,             \* index of the next row of the loop in get_player_stats
    player_stats,  \* the list get_player_stats builds and returns
    stats,         \* main's variable stats
    top_players,   \* results of calculate_mvp, as unpacked by main
    best_player,
    second_place,
    third_place,
    exc,           \* the uncaught exception that ended the run, if any
    out            \* the lines printed to standard output

vars == <<rows, args_top, args_pattern, pc, i, player_stats, stats,
          top_players, best_player, second_place, third_place, exc, out>>

-----------------------------------------------------------------------------
(* Bounds of the model.                                                    *)

\* The longest table: rows has at most MaxRows rows.
MaxRows == 4

-----------------------------------------------------------------------------
(* str.strip() and float().                                                *)

IsSpace(c) == c = " "

RECURSIVE lstrip(_)
lstrip(s) == IF s # <<>> /\ IsSpace(Head(s)) THEN lstrip(Tail(s)) ELSE s

RECURSIVE rstrip(_)
rstrip(s) ==
    IF s # <<>> /\ IsSpace(s[Len(s)]) THEN rstrip(SubSeq(s, 1, Len(s) - 1)) ELSE s

strip(s) == rstrip(lstrip(s))

DigitChars == <<"0", "1", "2", "3", "4", "5", "6", "7", "8", "9">>

IsDigit(c) == \E d \in 1..Len(DigitChars) : DigitChars[d] = c

DigitValue(c) == (CHOOSE d \in 1..Len(DigitChars) : DigitChars[d] = c) - 1

RECURSIVE DigitsValue(_)
DigitsValue(s) ==
    IF s = <<>> THEN 0
    ELSE 10 * DigitsValue(SubSeq(s, 1, Len(s) - 1)) + DigitValue(s[Len(s)])

RECURSIVE Pow10(_)
Pow10(n) == IF n = 0 THEN 1 ELSE 10 * Pow10(n - 1)

\* What float(text) gives: ok = FALSE stands for the ValueError it raises on
\* text that is no decimal numeral; otherwise the value is num/den, den > 0.
\* Decimal numerals only: [sign] digits [. digits], surrounding blanks allowed.
float(text) ==
    LET s == strip(text)
        signed == s # <<>> /\ s[1] \in {"+", "-"}
        body == IF signed THEN Tail(s) ELSE s
        dots == {j \in 1..Len(body) : body[j] = "."}
        wellformed == /\ Cardinality(dots) <= 1
                      /\ \A j \in (1..Len(body)) \ dots : IsDigit(body[j])
                      /\ Len(body) > Cardinality(dots)
    IN  IF ~wellformed THEN [ok |-> FALSE, num |-> 0, den |-> 1]
        ELSE LET d == IF dots = {} THEN Len(body) + 1 ELSE CHOOSE j \in dots : TRUE
                 ip == SubSeq(body, 1, d - 1)
                 fp == SubSeq(body, d + 1, Len(body))
                 mag == DigitsValue(ip \o fp)
             IN  [ok |-> TRUE,
                  num |-> IF signed /\ s[1] = "-" THEN 0 - mag ELSE mag,
                  den |-> Pow10(Len(fp))]

\* Float comparison and addition on the exact values.
FloatLess(a, b) == a.num * b.den < b.num * a.den

FloatEq(a, b) == a.num * b.den = b.num * a.den

FloatAdd(a, b) ==
    [ok |-> a.ok /\ b.ok, num |-> a.num * b.den + b.num * a.den, den |-> a.den * b.den]

FloatZero == [ok |-> TRUE, num |-> 0, den |-> 1]

-----------------------------------------------------------------------------
(* re.search(pattern, string, re.IGNORECASE), for patterns made of         *)
(* literal characters (no regular-expression operators).                   *)

UpperChars == <<"A", "B", "C", "D", "E", "F", "G", "H", "I", "J", "K", "L", "M",
                "N", "O", "P", "Q", "R", "S", "T", "U", "V", "W", "X", "Y", "Z">>

LowerChars == <<"a", "b", "c", "d", "e", "f", "g", "h", "i", "j", "k", "l", "m",
                "n", "o", "p", "q", "r", "s", "t", "u", "v", "w", "x", "y", "z">>

lower(c) ==
    IF \E j \in 1..Len(UpperChars) : UpperChars[j] = c
    THEN LowerChars[CHOOSE j \in 1..Len(UpperChars) : UpperChars[j] = c]
    ELSE c

\* One pattern character against one string character, ignoring case.
CharMatches(p, c) == lower(p) = lower(c)

\* The pattern matched at the start of s, character by character.
RECURSIVE MatchHere(_, _)
MatchHere(pattern, s) ==
    IF pattern = <<>> THEN TRUE
    ELSE IF s = <<>> THEN FALSE
    ELSE CharMatches(Head(pattern), Head(s)) /\ MatchHere(Tail(pattern), Tail(s))

\* The scan of re.search: try every start position from the left, the end of
\* the string included (where only the empty pattern matches).
RECURSIVE re_search(_, _)
\* Mutant: re.match in place of re.search, the pattern tried at the start only.
re_match(pattern, s) == MatchHere(pattern, s)

re_search(pattern, s) ==
    IF MatchHere(pattern, s) THEN TRUE
    ELSE IF s = <<>> THEN FALSE
    ELSE re_search(pattern, Tail(s))

-----------------------------------------------------------------------------
(* The input: the rows of the two tables, and the command line.            *)

\* One zipped row: the name row's anchor (find('a') gives None when there is
\* none) and the td cells of the stat row.
Row(has_anchor, anchor_text, columns) ==
    [has_anchor |-> has_anchor, anchor_text |-> anchor_text, columns |-> columns]

\* A stat row of n cells holding the five texts at the positions the loop
\* reads (0-based 3, 6, 9, 13, 14) and "0" elsewhere.
Cells(n, pts, fg, tp, reb, ast) ==
    [j \in 1..n |->
        CASE j = 4 -> pts [] j = 7 -> fg [] j = 10 -> tp
          [] j = 14 -> reb [] j = 15 -> ast [] OTHER -> <<"0">>]

RowA == Row(TRUE, <<"A", " ", "K", "i", "n", "g">>,
            Cells(15, <<"3", "0">>, <<"5", "0">>, <<"4", "0">>, <<"1", "0">>, <<"5">>))

RowB == Row(TRUE, <<"V", "i", "k", "i", "n", "g", " ">>,
            Cells(15, <<"2", "5">>, <<"6", "0">>, <<"4", "5">>, <<"1", "2">>, <<"8">>))

RowC == Row(TRUE, <<"C", " ", "K", "o", "n", "g">>,
            Cells(15, <<"2", "0">>, <<"4", "0">>, <<"3", "0">>, <<"5">>, <<"3">>))

\* No anchor; ties RowA on points (30.0) and RowB on the sum (150).
RowD == Row(FALSE, <<>>,
            Cells(20, <<"3", "0", ".", "0">>, <<"5", "5", ".", "5">>,
                      <<"4", "4", ".", "5">>, <<" ", "1", "2", " ">>, <<"8">>))

\* Eight cells: fewer than nine.
RowShort == Row(TRUE, <<"S", "h", "o", "r", "t">>,
                Cells(8, <<"9", "9">>, <<"9", "9">>, <<>>, <<>>, <<>>))

\* Exactly nine cells, numeric text in each.
RowNine == Row(TRUE, <<"N", "i", "n", "e">>,
               Cells(9, <<"2", "2">>, <<"4", "1">>, <<>>, <<>>, <<>>))

\* Fifteen cells, the rebounds cell empty and the assists cell a dash.
RowBad == Row(TRUE, <<"K", "i", "n", "g", " ", "X">>,
              Cells(15, <<"2", "8">>, <<"4", "8">>, <<"3", "5">>, <<>>, <<"-", "-">>))

RowCatalogue == <<RowA, RowB, RowC, RowD, RowShort, RowNine, RowBad>>

\* --pattern: the default '' and one word in two letter cases.
PatternCatalogue == {<<>>, <<"K", "I", "N", "G">>, <<"k", "i", "n", "g">>}

\* --top: default=5
DefaultTop == 5

TopCatalogue == {2, 3, DefaultTop}

-----------------------------------------------------------------------------
(* Players and exceptions.                                                 *)

Player(name, points, fg, tp, reb, ast) ==
    [Player |-> name, Points |-> points, FieldGoalPercentage |-> fg,
     ThreePointPercentage |-> tp, Rebounds |-> reb, Assists |-> ast]

\* The value of a result variable main has not assigned yet.
Unassigned == Player(<<>>, <<>>, <<>>, <<>>, <<>>, <<>>)

NoException == [type |-> "", line |-> 0]

Raised(type, line) == [type |-> type, line |-> line]

NA == <<"N", "/", "A">>

-----------------------------------------------------------------------------
(* get_player_stats: one pass of the loop body.                            *)

\* Mutant: the length check off by one.
TooFewColumnsOffByOne(columns) == Len(columns) < 8

\* if len(columns) < 9
TooFewColumns(columns) == Len(columns) < 9

\* The first line of the loop body whose index is out of range for a row that
\* passed the length check, 0 when none is.
IndexErrorLine(columns) ==
    IF Len(columns) <= 9 THEN 38
    ELSE IF Len(columns) <= 13 THEN 39
    ELSE IF Len(columns) <= 14 THEN 40
    ELSE 0

player_name(row) == IF row.has_anchor THEN strip(row.anchor_text) ELSE NA

\* The dictionary the loop appends for a row all of whose indices exist.
PlayerOfRow(row) ==
    Player(player_name(row),
           strip(row.columns[4]), strip(row.columns[7]), strip(row.columns[10]),
           strip(row.columns[14]), strip(row.columns[15]))

Line(label, text) == [label |-> label, text |-> text]

-----------------------------------------------------------------------------
(* calculate_mvp.                                                          *)

\* sorted(..., reverse=True) on precomputed keys: a stable sort, so elements
\* with equal keys keep their order.  Index j goes after every index whose key
\* is not less than its own.
RECURSIVE InsertDesc(_, _, _), InsertDescUnstable(_, _, _)
\* Mutant: index j goes before the indices with an equal key, which reverses
\* the order of ties.
InsertDescUnstable(acc, j, keys) ==
    IF acc = <<>> THEN <<j>>
    ELSE IF ~FloatLess(keys[j], keys[Head(acc)]) THEN <<j>> \o acc
    ELSE <<Head(acc)>> \o InsertDescUnstable(Tail(acc), j, keys)

InsertDesc(acc, j, keys) ==
    IF acc = <<>> THEN <<j>>
    ELSE IF FloatLess(keys[Head(acc)], keys[j]) THEN <<j>> \o acc
    ELSE <<Head(acc)>> \o InsertDesc(Tail(acc), j, keys)

RECURSIVE SortIndices(_, _)
SortIndices(n, keys) ==
    IF n = 0 THEN <<>> ELSE InsertDesc(SortIndices(n - 1, keys), n, keys)

sorted_reverse(seq, keys) ==
    LET perm == SortIndices(Len(seq), keys)
    IN  [k \in 1..Len(seq) |-> seq[perm[k]]]

\* Mutant: seq[1:k], the first element lost.
SliceFromOne(seq, k) ==
    SubSeq(seq, 2, IF k < Len(seq) THEN k ELSE Len(seq))

\* seq[:k]
SliceTo(seq, k) ==
    IF k >= 0 THEN SubSeq(seq, 1, IF k < Len(seq) THEN k ELSE Len(seq))
    ELSE SubSeq(seq, 1, IF Len(seq) + k > 0 THEN Len(seq) + k ELSE 0)

\* lambda p: float(p['Points'])
PointsKey(p) == float(p.Points)

\* Mutant: the overall ranking made on the points alone.
OverallKeyPointsOnly(p) == FloatAdd(FloatZero, float(p.Points))

\* lambda p: sum(float(p[key]) for key in p.keys() if key != 'Player')
OverallKey(p) ==
    FloatAdd(FloatAdd(FloatAdd(FloatAdd(FloatAdd(FloatZero,
        float(p.Points)), float(p.FieldGoalPercentage)),
        float(p.ThreePointPercentage)), float(p.Rebounds)), float(p.Assists))

Failure(type, line) ==
    [raised |-> Raised(type, line), top_players |-> <<>>, best_player |-> Unassigned,
     second_place |-> Unassigned, third_place |-> Unassigned]

calculate_mvp(ps, top_count) ==
    LET pkeys == [j \in 1..Len(ps) |-> PointsKey(ps[j])]
        okeys == [j \in 1..Len(ps) |-> OverallKey(ps[j])]
        sorted_players_by_points == sorted_reverse(ps, pkeys)
        sorted_players_by_overall == sorted_reverse(ps, okeys)
    IN  IF \E j \in 1..Len(ps) : ~pkeys[j].ok THEN Failure("ValueError", 68)
        ELSE IF \E j \in 1..Len(ps) : ~okeys[j].ok THEN Failure("ValueError", 71)
        ELSE IF Len(ps) < 1 THEN Failure("IndexError", 72)
        ELSE IF Len(ps) < 2 THEN Failure("IndexError", 73)
        ELSE IF Len(ps) < 3 THEN Failure("IndexError", 74)
        ELSE [raised |-> NoException,
              top_players |-> SliceTo(sorted_players_by_points, top_count),
              best_player |-> sorted_players_by_overall[1],
              second_place |-> sorted_players_by_overall[2],
              third_place |-> sorted_players_by_overall[3]]

-----------------------------------------------------------------------------
(* filter_players.                                                         *)

RECURSIVE filter_players(_, _)
\* Mutant: an empty pattern taken to match nothing.
filter_players_empty_matches_none(ps, regex_pattern) ==
    IF regex_pattern = <<>> THEN <<>>
    ELSE SelectSeq(ps, LAMBDA p : re_search(regex_pattern, p.Player))

filter_players(ps, regex_pattern) ==
    IF ps = <<>> THEN <<>>
    ELSE (IF re_search(regex_pattern, Head(ps).Player) THEN <<Head(ps)>> ELSE <<>>)
         \o filter_players(Tail(ps), regex_pattern)

\* if args.pattern: a non-empty string is true
PatternGiven(pattern) == pattern # <<>>

-----------------------------------------------------------------------------
(* The report main prints.                                                 *)

StatBlock(p) ==
    << Line("Player", p.Player), Line("Points", p.Points),
       Line("Field Goal Percentage", p.FieldGoalPercentage),
       Line("Three Point Percentage", p.ThreePointPercentage),
       Line("Rebounds", p.Rebounds), Line("Assists", p.Assists),
       Line("------------------------", <<>>) >>

RECURSIVE TopBlocks(_)
TopBlocks(ps) == IF ps = <<>> THEN <<>> ELSE StatBlock(Head(ps)) \o TopBlocks(Tail(ps))

\* Mutant: the MVP line names the top scorer.
ReportNamesTopScorer(top, best, second, third) ==
    <<Line("Top Players:", <<>>)>> \o TopBlocks(top)
    \o <<Line("Player with the Best Overall Stats:", <<>>)>> \o StatBlock(best)
    \o <<Line("Second Place:", <<>>)>> \o StatBlock(second)
    \o <<Line("Third Place:", <<>>)>> \o StatBlock(third)
    \o <<Line("The NBA MVP should be", top[1].Player)>>

Report(top, best, second, third) ==
    <<Line("Top Players:", <<>>)>> \o TopBlocks(top)
    \o <<Line("Player with the Best Overall Stats:", <<>>)>> \o StatBlock(best)
    \o <<Line("Second Place:", <<>>)>> \o StatBlock(second)
    \o <<Line("Third Place:", <<>>)>> \o StatBlock(third)
    \o <<Line("The NBA MVP should be", best.Player)>>

-----------------------------------------------------------------------------
(* The state machine: the main block.                                      *)

Init ==
    /\ rows \in UNION {[1..n -> 1..Len(RowCatalogue)] : n \in 0..MaxRows}
    /\ args_top \in TopCatalogue
    /\ args_pattern \in PatternCatalogue
    /\ pc = "get_player_stats"
    /\ i = 1
    /\ player_stats = <<>>
    /\ stats = <<>>
    /\ top_players = <<>>
    /\ best_player = Unassigned
    /\ second_place = Unassigned
    /\ third_place = Unassigned
    /\ exc = NoException
    /\ out = <<>>

\* Row j of the zipped tables.
RowAt(j) == RowCatalogue[rows[j]]

\* Lines 26-49: the loop body on row i.
LoopBody ==
    /\ pc = "get_player_stats"
    /\ i <= Len(rows)
    /\ LET row == RowAt(i)
       IN  IF TooFewColumns(row.columns)
           THEN /\ out' = Append(out, Line("Invalid row, skipping...", <<>>))
                /\ i' = i + 1
                /\ UNCHANGED <<pc, player_stats, exc>>
           ELSE IF IndexErrorLine(row.columns) # 0
           THEN /\ pc' = "crashed"
                /\ exc' = Raised("IndexError", IndexErrorLine(row.columns))
                /\ UNCHANGED <<i, player_stats, out>>
           ELSE /\ player_stats' = Append(player_stats, PlayerOfRow(row))
                /\ i' = i + 1
                /\ UNCHANGED <<pc, exc, out>>
    /\ UNCHANGED <<rows, args_top, args_pattern, stats, top_players,
                   best_player, second_place, third_place>>

\* Lines 51 and 105: the loop is over, stats = get_player_stats().
LoopReturn ==
    /\ pc = "get_player_stats"
    /\ i > Len(rows)
    /\ stats' = player_stats
    /\ pc' = "filter"
    /\ UNCHANGED <<rows, args_top, args_pattern, i, player_stats, top_players,
                   best_player, second_place, third_place, exc, out>>

\* Lines 107-108.
FilterStage ==
    /\ pc = "filter"
    /\ stats' = IF PatternGiven(args_pattern)
                THEN filter_players(stats, args_pattern) ELSE stats
    /\ pc' = "calculate_mvp"
    /\ UNCHANGED <<rows, args_top, args_pattern, i, player_stats, top_players,
                   best_player, second_place, third_place, exc, out>>

\* Line 110.
Rank ==
    /\ pc = "calculate_mvp"
    /\ LET r == calculate_mvp(stats, args_top)
       IN  /\ exc' = r.raised
           /\ pc' = IF r.raised = NoException THEN "report" ELSE "crashed"
           /\ top_players' = r.top_players
           /\ best_player' = r.best_player
           /\ second_place' = r.second_place
           /\ third_place' = r.third_place
    /\ UNCHANGED <<rows, args_top, args_pattern, i, player_stats, stats, out>>

\* Lines 112-149.
PrintReport ==
    /\ pc = "report"
    /\ out' = out \o Report(top_players, best_player, second_place, third_place)
    /\ pc' = "done"
    /\ UNCHANGED <<rows, args_top, args_pattern, i, player_stats, stats,
                   top_players, best_player, second_place, third_place, exc>>

Next == LoopBody \/ LoopReturn \/ FilterStage \/ Rank \/ PrintReport

Spec == Init /\ [][Next]_vars

-----------------------------------------------------------------------------
(* Vocabulary of the properties.                                           *)

Range(seq) == {seq[j] : j \in 1..Len(seq)}

Count(seq, x) == Cardinality({j \in 1..Len(seq) : seq[j] = x})

IsPrefixOf(a, b) == Len(a) <= Len(b) /\ a = SubSeq(b, 1, Len(a))

\* Where the run is.
NormalizerFailed == pc = "crashed" /\ exc.line \in 26..51

NormalizerReturned == pc # "get_player_stats" /\ ~NormalizerFailed

FilterDone == NormalizerReturned /\ pc # "filter"

RankingFailed == pc = "crashed" /\ exc.line \in 68..76

RankingReturned == pc \in {"report", "done"}

RankingRequested == RankingFailed \/ RankingReturned

AllNumeric(p) ==
    /\ float(p.Points).ok
    /\ float(p.FieldGoalPercentage).ok
    /\ float(p.ThreePointPercentage).ok
    /\ float(p.Rebounds).ok
    /\ float(p.Assists).ok

-----------------------------------------------------------------------------
\* C1: whenever ranking is requested on fewer than 3 players (the empty
\* sequence and a sequence the filter shrank included), calculate_mvp fails
\* with InsufficientDataError, never with an out-of-range access.
C1_InsufficientDataOnFewerThanThree ==
    (RankingRequested /\ Len(stats) < 3)
        => (RankingFailed /\ exc.type = "InsufficientDataError")

-----------------------------------------------------------------------------
\* C4: a row with an absent or non-numeric stat is skipped by the normalizer,
\* so every player handed to filtering and ranking has five numeric fields and
\* ranking never fails on an unparsable field.
C4_WorkingSetIsNumeric ==
    /\ NormalizerReturned => \A p \in Range(stats) : AllNumeric(p)
    /\ ~(RankingFailed /\ exc.type = "ValueError")

-----------------------------------------------------------------------------
\* C6: every row with at least nine cells and numeric text yields exactly one
\* player, and no row with nine or more cells makes the normalizer fail: the
\* loop has appended one player for each row of nine or more cells it has
\* passed, and it never ends in an exception.
C6_NineFieldsSuffice ==
    /\ ~NormalizerFailed
    /\ pc = "get_player_stats" =>
           Len(player_stats) =
               Cardinality({j \in 1..(i - 1) : Len(RowAt(j).columns) >= 9})

-----------------------------------------------------------------------------
\* C7 as stated: with fewer players than top_count the run fails instead of
\* returning a shorter top_by_points list, so calculate_mvp never returns with
\* fewer players than top_count in hand.
C7_FailsWhenFewerThanTopCount ==
    RankingReturned => (Len(stats) >= args_top /\ Len(top_players) = args_top)

\* C7 as amended: with fewer players than top_count no error is raised on that
\* account.  With at least 3 players, all numeric, calculate_mvp returns and
\* top_players holds every available player (so it is shorter than top_count);
\* otherwise the run ends in the IndexError of the podium or the ValueError of
\* float().
C7_TruncatesToAvailable ==
    (RankingRequested /\ Len(stats) < args_top) =>
        IF Len(stats) >= 3 /\ \A p \in Range(stats) : AllNumeric(p)
        THEN /\ RankingReturned
             /\ Len(top_players) = Len(stats)
             /\ \A p \in Range(stats) \cup Range(top_players) :
                    Count(top_players, p) = Count(stats, p)
        ELSE /\ RankingFailed
             /\ exc.type = IF \A p \in Range(stats) : AllNumeric(p)
                           THEN "IndexError" ELSE "ValueError"

C7_Witness ==
    /\ pc = "done"
    /\ Len(stats) >= 3
    /\ Len(stats) < args_top
    /\ Len(top_players) = Len(stats)

-----------------------------------------------------------------------------
(* What it is for a list to be the first entries of a stable descending    *)
(* sort of a sequence, said without sorting.  value(p) is the sort key.    *)

NonIncreasing(result, value(_)) ==
    \A k \in 1..(Len(result) - 1) : ~FloatLess(value(result[k]), value(result[k + 1]))

\* Every entry is an entry of the input, taken no more often than it is there.
TakenFrom(result, input) ==
    \A p \in Range(result) : Count(result, p) <= Count(input, p) /\ Count(input, p) > 0

\* No entry left out of the result has a larger value than an entry in it.
LeftOutAreNoLarger(result, input, value(_)) ==
    \A q \in Range(input) :
        Count(result, q) < Count(input, q) =>
            \A k \in 1..Len(result) : ~FloatLess(value(result[k]), value(q))

\* Among entries of equal value the result keeps the input's order: for each
\* value, the result's entries of that value are the first of the input's.
TiesInOriginalOrder(result, input, value(_)) ==
    \A q \in Range(input) :
        LET same(p) == FloatEq(value(p), value(q))
        IN  IsPrefixOf(SelectSeq(result, same), SelectSeq(input, same))

-----------------------------------------------------------------------------
\* C2: when calculate_mvp returns (top_count >= 1, n >= 3 players),
\* top_players has min(top_count, n) entries, in non-increasing order of
\* points, none with fewer points than a player left out, and players with
\* equal points in their original order.
C2_Points(p) == float(p.Points)

C2_TopByPoints ==
    RankingReturned =>
        /\ args_top >= 1 /\ Len(stats) >= 3
        /\ Len(top_players) = IF args_top < Len(stats) THEN args_top ELSE Len(stats)
        /\ NonIncreasing(top_players, C2_Points)
        /\ TakenFrom(top_players, stats)
        /\ LeftOutAreNoLarger(top_players, stats, C2_Points)
        /\ TiesInOriginalOrder(top_players, stats, C2_Points)

\* A returned list that was truncated, with two different players of equal
\* points, one of them in the list.
C2_Witness ==
    /\ pc = "done"
    /\ Len(top_players) < Len(stats)
    /\ \E p \in Range(top_players), q \in Range(stats) :
           p # q /\ FloatEq(C2_Points(p), C2_Points(q))

-----------------------------------------------------------------------------
\* C3: when calculate_mvp returns, best/second/third are the first three
\* entries of the players in non-increasing order of the unweighted sum
\* points + field-goal% + three-point% + rebounds + assists, equal sums in
\* original order; A(30,50,40,10,5), B(25,60,45,12,8), C(20,40,30,5,3) with
\* top_count = 2 give top_players = [A, B], best = B, second = A, third = C.
C3_Sum(p) ==
    FloatAdd(float(p.Assists), FloatAdd(float(p.Rebounds),
        FloatAdd(float(p.ThreePointPercentage),
            FloatAdd(float(p.FieldGoalPercentage), float(p.Points)))))

C3_Is(p, n) == FloatEq(C3_Sum(p), [ok |-> TRUE, num |-> n, den |-> 1])

C3_ExampleA ==
    Player(<<"A", " ", "K", "i", "n", "g">>,
           <<"3", "0">>, <<"5", "0">>, <<"4", "0">>, <<"1", "0">>, <<"5">>)

C3_ExampleB ==
    Player(<<"V", "i", "k", "i", "n", "g">>,
           <<"2", "5">>, <<"6", "0">>, <<"4", "5">>, <<"1", "2">>, <<"8">>)

C3_ExampleC ==
    Player(<<"C", " ", "K", "o", "n", "g">>,
           <<"2", "0">>, <<"4", "0">>, <<"3", "0">>, <<"5">>, <<"3">>)

C3_ExampleRun == stats = <<C3_ExampleA, C3_ExampleB, C3_ExampleC>> /\ args_top = 2

C3_OverallPodium ==
    RankingReturned =>
        LET podium == <<best_player, second_place, third_place>>
        IN  /\ NonIncreasing(podium, C3_Sum)
            /\ TakenFrom(podium, stats)
            /\ LeftOutAreNoLarger(podium, stats, C3_Sum)
            /\ TiesInOriginalOrder(podium, stats, C3_Sum)
            /\ C3_ExampleRun =>
                   /\ C3_Is(C3_ExampleA, 135)
                   /\ C3_Is(C3_ExampleB, 150)
                   /\ C3_Is(C3_ExampleC, 98)
                   /\ top_players = <<C3_ExampleA, C3_ExampleB>>
                   /\ best_player = C3_ExampleB
                   /\ second_place = C3_ExampleA
                   /\ third_place = C3_ExampleC

\* A podium with two different players of equal sum and a player left out.
C3_Witness ==
    /\ pc = "done"
    /\ Len(stats) > 3
    /\ best_player # second_place
    /\ FloatEq(C3_Sum(best_player), C3_Sum(second_place))
    /\ \E q \in Range(stats) : FloatLess(C3_Sum(q), C3_Sum(third_place))

\* The run of the example, finished.
C3_ExampleReached == pc = "done" /\ C3_ExampleRun

-----------------------------------------------------------------------------
\* C5: a row with fewer than 9 cells is always skipped.  It never shows in
\* the player sequence, whose entries are, in source order, those of the rows
\* with 9 or more cells passed so far; it never ends the loop, as an exception
\* in the loop is never raised on such a row; and the rows after it are still
\* appended.
C5_IsShort(j) == Len(RowAt(j).columns) < 9

C5_KeptUpTo(n) == SelectSeq([j \in 1..n |-> j], LAMBDA j : ~C5_IsShort(j))

C5_PlayersOfKept(n) ==
    /\ Len(player_stats) = Len(C5_KeptUpTo(n))
    /\ \A k \in 1..Len(player_stats) :
           LET row == RowAt(C5_KeptUpTo(n)[k])
           IN  /\ player_stats[k].Player = player_name(row)
               /\ player_stats[k].Points = strip(row.columns[4])
               /\ player_stats[k].Assists = strip(row.columns[15])

C5_ShortRowsSkipped ==
    /\ pc = "get_player_stats" => C5_PlayersOfKept(i - 1)
    /\ NormalizerFailed => (~C5_IsShort(i) /\ C5_PlayersOfKept(i - 1))
    /\ NormalizerReturned => C5_PlayersOfKept(Len(rows))

\* The loop is over, and it passed a short row between two rows it kept.
C5_Witness ==
    /\ NormalizerReturned
    /\ \E j, k, l \in 1..Len(rows) :
           j < k /\ k < l /\ ~C5_IsShort(j) /\ C5_IsShort(k) /\ ~C5_IsShort(l)
    /\ Len(player_stats) >= 2
    /\ \E n \in 1..Len(out) : out[n].label = "Invalid row, skipping..."

-----------------------------------------------------------------------------
\* C8: filter_players returns exactly the players whose name holds the pattern
\* somewhere, letter case ignored, in their original order, none doubled and
\* none lost; patterns that differ in letter case only give the same output.
C8_SameLetter(a, b) ==
    \/ a = b
    \/ \E n \in 1..Len(UpperChars) : {a, b} = {UpperChars[n], LowerChars[n]}

C8_Contains(name, pattern) ==
    \E off \in 0..(Len(name) - Len(pattern)) :
        \A n \in 1..Len(pattern) : C8_SameLetter(name[off + n], pattern[n])

C8_SameWord(p, q) ==
    Len(p) = Len(q) /\ \A n \in 1..Len(p) : C8_SameLetter(p[n], q[n])

C8_FilterByName ==
    (FilterDone /\ PatternGiven(args_pattern)) =>
        /\ stats = SelectSeq(player_stats,
                             LAMBDA p : C8_Contains(p.Player, args_pattern))
        /\ \A q \in PatternCatalogue :
               C8_SameWord(q, args_pattern) => filter_players(player_stats, q) = stats

\* A filtered run that kept two different players and dropped one before the
\* last one kept, on a name that matches away from its start.
C8_Witness ==
    /\ FilterDone
    /\ PatternGiven(args_pattern)
    /\ Len(stats) >= 2
    /\ stats[1] # stats[2]
    /\ Len(player_stats) > Len(stats)
    /\ player_stats[Len(player_stats)] = stats[Len(stats)]
    /\ \E q \in PatternCatalogue : q # args_pattern /\ C8_SameWord(q, args_pattern)
    /\ ~IsPrefixOf(args_pattern, stats[1].Player)

-----------------------------------------------------------------------------
\* C9: filtering with the empty pattern is the identity: filter_players on
\* the empty pattern returns the sequence it is given, and with the default
\* --pattern the sequence handed to ranking is the one get_player_stats
\* returned.
C9_EmptyPatternIsIdentity ==
    /\ filter_players(player_stats, <<>>) = player_stats
    /\ (FilterDone /\ args_pattern = <<>>) => stats = player_stats

C9_Witness ==
    /\ pc = "calculate_mvp"
    /\ args_pattern = <<>>
    /\ Len(stats) >= 2
    /\ stats[1] # stats[2]

-----------------------------------------------------------------------------
\* C10: in a successful run the report comes in a fixed order: the stat lines
\* of each of top_players in ranking order, then those of the best, second
\* and third place, then one MVP line, the last, naming the best player; with
\* a pattern given every player named is one of the filtered sequence.
C10_IsDiagnostic(line) == line.label = "Invalid row, skipping..."

C10_StatLinesAt(lines, n, p) ==
    /\ lines[n] = Line("Player", p.Player)
    /\ lines[n + 1] = Line("Points", p.Points)
    /\ lines[n + 2] = Line("Field Goal Percentage", p.FieldGoalPercentage)
    /\ lines[n + 3] = Line("Three Point Percentage", p.ThreePointPercentage)
    /\ lines[n + 4] = Line("Rebounds", p.Rebounds)
    /\ lines[n + 5] = Line("Assists", p.Assists)

C10_ReportOrder ==
    pc = "done" =>
        LET report == SelectSeq(out, LAMBDA line : ~C10_IsDiagnostic(line))
            m == Len(top_players)
            named == SelectSeq(out, LAMBDA line : line.label = "Player")
        IN  /\ Len(report) = 7 * m + 26
            /\ \A k \in 1..m : C10_StatLinesAt(report, 7 * k - 5, top_players[k])
            /\ C10_StatLinesAt(report, 7 * m + 3, best_player)
            /\ C10_StatLinesAt(report, 7 * m + 11, second_place)
            /\ C10_StatLinesAt(report, 7 * m + 19, third_place)
            /\ Len(named) = m + 3
            /\ out[Len(out)] = Line("The NBA MVP should be", best_player.Player)
            /\ Cardinality({n \in 1..Len(out) :
                               out[n].label = "The NBA MVP should be"}) = 1
            /\ PatternGiven(args_pattern) =>
                   /\ \A n \in 1..Len(named) :
                          \E p \in Range(stats) : p.Player = named[n].text
                   /\ Range(top_players) \cup {best_player, second_place, third_place}
                          \subseteq Range(stats)

\* A finished run with a pattern that dropped a player, where the best
\* player is not the top scorer.
C10_Witness ==
    /\ pc = "done"
    /\ PatternGiven(args_pattern)
    /\ Len(stats) < Len(player_stats)
    /\ Len(top_players) >= 2
    /\ best_player # top_players[1]

====
